---- MODULE Spec2Model ----
(***************************************************************************)
(* Warm-start construction of src/src/warmstart.py:                        *)
(*   filter_problem_data_per_job              (the subproblem extractor)   *)
(*   find_initial_solution_by_solving_per_job (the orchestrator/stitcher)  *)
(* Python lists are sequences whose ELEMENTS are the 0-based indices the   *)
(* code uses; list[i] is read as seq[i + 1].  Python dicts are functions   *)
(* whose DOMAIN is the key set.                                            *)
(***************************************************************************)
EXTENDS Integers, Sequences, FiniteSets, TLC

VARIABLES
    data,                 \* the ProblemData handed to the program
    pc,                   \* position of find_initial_solution_by_solving_per_job
    job_index,            \* loop variable, line 143
    relative_time_point,  \* running offset, line 141
    scheduled_tasks,      \* list[TaskData], line 142
    exc,                  \* the exception that left the orchestrator, or NoExc
    ret,                  \* the returned tuple, or NoReturn
    log,                  \* history: one record per stitched job
    n_extracted,          \* history: calls of filter_problem_data_per_job
    n_solved,             \* history: calls of new_model.solve
    filt,                 \* outcome of a direct call of filter_problem_data_per_job
    data0,                \* history: the instance as it was constructed
    harness               \* benchmark_instance.main: position, rows, exception

vars == <<data, pc, job_index, relative_time_point, scheduled_tasks, exc, ret,
          log, n_extracted, n_solved, filt, data0, harness>>

----------------------------------------------------------------------------
(* Bounds of the explored inputs *)

NumTasks == 3      \* tasks of the instance: 0 .. NumTasks-1
MaxStart == 1      \* the solver places a task at a start in 0 .. MaxStart
MaxCons == 2       \* longest constraint list of one instance

(* Program constant *)
BUFFER == 12       \* warmstart.py line 170

----------------------------------------------------------------------------
(* Python helpers *)

Range(s) == {s[i] : i \in DOMAIN s}

\* list[i] with Python's index rule: -len .. len-1 are valid, others IndexError
IndexOK(list, i) == i >= 0 - Len(list) /\ i < Len(list)
PyItem(list, i) == IF i < 0 THEN list[Len(list) + i + 1] ELSE list[i + 1]

\* d[k] = v
DictSet(d, k, v) == [x \in (DOMAIN d) \cup {k} |-> IF x = k THEN v ELSE d[x]]
EmptyDict == [x \in {} |-> 0]

KeyError == "KeyError"
NoExc == "none"

\* d[k] as an expression: the value, or KeyError raised when k is no key of d
Lookup(d, k) ==
    IF k \in DOMAIN d THEN [raised |-> NoExc, value |-> d[k]]
    ELSE [raised |-> KeyError, value |-> 0]

Max(S) == CHOOSE x \in S : \A y \in S : y <= x

RECURSIVE SumSeq(_)
SumSeq(s) == IF s = << >> THEN 0 ELSE Head(s) + SumSeq(Tail(s))

----------------------------------------------------------------------------
(* pyjobshop records as the code builds and reads them *)

Job(tasks) == [tasks |-> tasks]
Task(job, allow_idle) == [job |-> job, allow_idle |-> allow_idle]
Mode(task, resources, duration, demands) ==
    [task |-> task, resources |-> resources, duration |-> duration, demands |-> demands]
TaskData(mode, start, end, resources) ==
    [mode |-> mode, start |-> start, end |-> end, resources |-> resources]
ProblemData(jobs, tasks, resources, modes, constraints) ==
    [jobs |-> jobs, tasks |-> tasks, resources |-> resources, modes |-> modes,
     constraints |-> constraints]

allowed_constraints ==
    << "start_before_end", "start_before_start", "end_before_start",
       "end_before_end", "consecutive", "identical_resources",
       "different_resources", "same_sequence", "setup_times" >>

\* the attributes of the constraints container
ConstraintAttrs ==
    Range(allowed_constraints) \cup {"mode_dependencies", "select_all_or_none"}

\* type(constraints)(): a fresh container, every list empty
FreshConstraints(constraints) == [k \in DOMAIN constraints |-> << >>]

----------------------------------------------------------------------------
(* filter_problem_data_per_job, lines 20-51: tasks, modes, translation dicts *)

\* the locals of lines 21-30
ExtractInit ==
    [tasks |-> << >>,
     task_translation |-> EmptyDict,
     task_translation_reversed |-> EmptyDict,
     modes_translation |-> EmptyDict,
     modes_translation_reversed |-> EmptyDict,
     modes_for_problem_data |-> << >>,
     new_mode_index |-> 0]

\* seeded fault: the translated mode keeps the old (global) task index
ModeStep_KeepsTask(acc, new_task_index, old_mode_index, mode) ==
    [acc EXCEPT
        !.modes_translation = DictSet(@, acc.new_mode_index, old_mode_index),
        !.modes_translation_reversed = DictSet(@, old_mode_index, acc.new_mode_index),
        !.new_mode_index = @ + 1,
        !.modes_for_problem_data =
            Append(@, Mode(mode.task, mode.resources, mode.duration, mode.demands))]

\* seeded fault: the reversed mode dict is filled with the task index
ModeStep_ReversedByTask(acc, new_task_index, old_mode_index, mode) ==
    [acc EXCEPT
        !.modes_translation = DictSet(@, acc.new_mode_index, old_mode_index),
        !.modes_translation_reversed = DictSet(@, old_mode_index, new_task_index),
        !.new_mode_index = @ + 1,
        !.modes_for_problem_data =
            Append(@, Mode(new_task_index, mode.resources, mode.duration, mode.demands))]

\* seeded fault: the resources of the translated mode are renumbered from 0
ModeStep_ReindexesResources(acc, new_task_index, old_mode_index, mode) ==
    [acc EXCEPT
        !.modes_translation = DictSet(@, acc.new_mode_index, old_mode_index),
        !.modes_translation_reversed = DictSet(@, old_mode_index, acc.new_mode_index),
        !.new_mode_index = @ + 1,
        !.modes_for_problem_data =
            Append(@, Mode(new_task_index, [x \in DOMAIN mode.resources |-> x - 1],
                           mode.duration, mode.demands))]

\* lines 41-46: the body of "if mode.task == old_task_index"
ModeStep(acc, new_task_index, old_mode_index, mode) ==
    [acc EXCEPT
        !.modes_translation = DictSet(@, acc.new_mode_index, old_mode_index),
        !.modes_translation_reversed = DictSet(@, old_mode_index, acc.new_mode_index),
        !.new_mode_index = @ + 1,
        !.modes_for_problem_data =
            Append(@, Mode(new_task_index, mode.resources, mode.duration, mode.demands))]

\* lines 39-46: for old_mode_index, mode in enumerate(data.modes), from index i on
RECURSIVE ModeLoop(_, _, _, _, _)
ModeLoop(d, old_task_index, new_task_index, i, acc) ==
    IF i >= Len(d.modes) THEN acc
    ELSE LET mode == d.modes[i + 1] IN
         IF mode.task = old_task_index
         THEN ModeLoop(d, old_task_index, new_task_index, i + 1,
                       ModeStep(acc, new_task_index, i, mode))
         ELSE ModeLoop(d, old_task_index, new_task_index, i + 1, acc)

\* lines 31-48: for old_task_index in old_job.tasks; new_task_index counts the rounds
RECURSIVE TaskLoop(_, _, _, _)
TaskLoop(d, old_tasks, new_task_index, acc) ==
    IF new_task_index >= Len(old_tasks) THEN acc
    ELSE LET old_task_index == old_tasks[new_task_index + 1]
             acc1 == [acc EXCEPT
                        !.task_translation = DictSet(@, new_task_index, old_task_index),
                        !.task_translation_reversed = DictSet(@, old_task_index, new_task_index),
                        !.tasks = Append(@, d.tasks[old_task_index + 1])]
         IN  TaskLoop(d, old_tasks, new_task_index + 1,
                      ModeLoop(d, old_task_index, new_task_index, 0, acc1))

----------------------------------------------------------------------------
(* filter_problem_data_per_job, lines 53-121: constraints *)

\* seeded fault: task2 is left as the old (global) index
TranslateTwoTask_Task1Only(cons, task_translation_reversed) ==
    [cons EXCEPT !.task1 = task_translation_reversed[cons.task1]]

\* seeded fault: the kept constraint is not translated
TranslateTwoTask_NotTranslated(cons, task_translation_reversed) == cons

\* lines 91-95: copy(cons), then overwrite task1 and task2
TranslateTwoTask(cons, task_translation_reversed) ==
    [cons EXCEPT !.task1 = task_translation_reversed[cons.task1],
                 !.task2 = task_translation_reversed[cons.task2]]

\* lines 80-97: for cons in cons_list
RECURSIVE TwoTaskLoop(_, _, _, _)
TwoTaskLoop(cons_list, tasks_set, task_translation_reversed, valid_cons) ==
    IF cons_list = << >> THEN valid_cons
    ELSE LET cons == Head(cons_list) IN
         IF ~ cons.has_task12
         THEN TwoTaskLoop(Tail(cons_list), tasks_set, task_translation_reversed, valid_cons)
         ELSE IF cons.task1 \in tasks_set /\ cons.task2 \in tasks_set
              THEN TwoTaskLoop(Tail(cons_list), tasks_set, task_translation_reversed,
                     Append(valid_cons, TranslateTwoTask(cons, task_translation_reversed)))
              ELSE TwoTaskLoop(Tail(cons_list), tasks_set, task_translation_reversed,
                     valid_cons)

\* lines 73-99: for cname in allowed_constraints, from position i on
RECURSIVE KindLoop(_, _, _, _, _)
KindLoop(constraints, i, tasks_set, task_translation_reversed, new_constraints) ==
    IF i > Len(allowed_constraints) THEN new_constraints
    ELSE LET cname == allowed_constraints[i] IN
         IF cname \notin DOMAIN constraints
         THEN KindLoop(constraints, i + 1, tasks_set, task_translation_reversed,
                       new_constraints)
         ELSE KindLoop(constraints, i + 1, tasks_set, task_translation_reversed,
                [new_constraints EXCEPT ![cname] =
                    TwoTaskLoop(constraints[cname], tasks_set,
                                task_translation_reversed, << >>)])

\* lines 104-120: for cons in cons_list of mode_dependencies; raised names the
\* exception that ends the loop (data.modes[...] or a dict lookup), or NoExc
RECURSIVE ModeDepLoop(_, _, _, _, _)
ModeDepLoop(d, cons_list, tasks_set, modes_translation_reversed, valid_cons) ==
    IF cons_list = << >> THEN [raised |-> NoExc, valid_cons |-> valid_cons]
    ELSE LET cons == Head(cons_list) IN
         IF ~ cons.has_modes
         THEN ModeDepLoop(d, Tail(cons_list), tasks_set, modes_translation_reversed,
                          valid_cons)
         ELSE IF ~ IndexOK(d.modes, cons.mode1)
         THEN [raised |-> "IndexError", valid_cons |-> valid_cons]
         ELSE LET old_mode1 == PyItem(d.modes, cons.mode1) IN
              IF old_mode1.task \in tasks_set
              THEN IF \/ Lookup(modes_translation_reversed, cons.mode1).raised # NoExc
                      \/ \E k \in DOMAIN cons.modes2 :
                            Lookup(modes_translation_reversed, cons.modes2[k]).raised # NoExc
                   THEN [raised |-> KeyError, valid_cons |-> valid_cons]
                   ELSE ModeDepLoop(d, Tail(cons_list), tasks_set,
                          modes_translation_reversed,
                          Append(valid_cons,
                            [cons EXCEPT
                               !.mode1 = Lookup(modes_translation_reversed, cons.mode1).value,
                               !.modes2 = [k \in DOMAIN cons.modes2 |->
                                    Lookup(modes_translation_reversed, cons.modes2[k]).value]]))
              ELSE ModeDepLoop(d, Tail(cons_list), tasks_set,
                               modes_translation_reversed, valid_cons)

\* the constraint object at position k of list cname of a container
Addr(owner, cname, k) == [owner |-> owner, cname |-> cname, k |-> k]

\* line 53: deepcopy(data.constraints) builds new objects throughout
deepcopy(addr) == [addr EXCEPT !.owner = "deepcopy"]

\* lines 91 and 114: copy(cons) builds one new object
copy(addr) == [addr EXCEPT !.owner = "copy"]

\* seeded fault: the loops write to the object held by data.constraints
cons_copy_Original(cname, k) == Addr("data", cname, k)

\* the object that lines 94-95 and 117-118 write to
cons_copy(cname, k) == copy(deepcopy(Addr("data", cname, k)))

\* a write to cons_copy reaches data.constraints only if it is that very object
InPlace(cname, k) == cons_copy(cname, k) = Addr("data", cname, k)

\* lines 80-97 seen from data: list cname of data.constraints after the loop
TwoTaskAfter(constraints, cname, tasks_set, task_translation_reversed) ==
    [k \in DOMAIN constraints[cname] |->
        LET cons == constraints[cname][k] IN
        IF /\ cons.has_task12
           /\ cons.task1 \in tasks_set /\ cons.task2 \in tasks_set
           /\ InPlace(cname, k)
        THEN TranslateTwoTask(cons, task_translation_reversed)
        ELSE cons]

\* lines 105-118 for one constraint: skipped, kept, or the line that raises
ModeDepOutcome(d, cons, tasks_set, modes_translation_reversed) ==
    IF ~ cons.has_modes THEN "skip"
    ELSE IF ~ IndexOK(d.modes, cons.mode1) THEN "raise 111"
    ELSE IF PyItem(d.modes, cons.mode1).task \notin tasks_set THEN "skip"
    ELSE IF Lookup(modes_translation_reversed, cons.mode1).raised # NoExc
         THEN "raise 117"
    ELSE IF \E k \in DOMAIN cons.modes2 :
               Lookup(modes_translation_reversed, cons.modes2[k]).raised # NoExc
         THEN "raise 118"
    ELSE "keep"

\* lines 104-120 seen from data: the mode_dependencies list of data.constraints
\* after the loop, which stops at the first constraint that raises; line 117
\* has written mode1 when line 118 raises
ModeDepAfter(d, tasks_set, modes_translation_reversed) ==
    LET cons_list == d.constraints["mode_dependencies"]
        outcome(k) == ModeDepOutcome(d, cons_list[k], tasks_set,
                                     modes_translation_reversed)
    IN  [k \in DOMAIN cons_list |->
            LET cons == cons_list[k] IN
            IF \/ ~ InPlace("mode_dependencies", k)
               \/ \E i \in 1 .. (k - 1) : outcome(i) \notin {"skip", "keep"}
            THEN cons
            ELSE IF outcome(k) = "keep"
            THEN [cons EXCEPT
                    !.mode1 = Lookup(modes_translation_reversed, cons.mode1).value,
                    !.modes2 = [x \in DOMAIN cons.modes2 |->
                        Lookup(modes_translation_reversed, cons.modes2[x]).value]]
            ELSE IF outcome(k) = "raise 118"
            THEN [cons EXCEPT
                    !.mode1 = Lookup(modes_translation_reversed, cons.mode1).value]
            ELSE cons]

\* the instance the caller holds once the call has returned or raised: jobs,
\* tasks, modes and resources are only read (line 20 copies the job), the
\* constraints are what the writes of the two loops leave in them
DataAfterFilter(d, old_job_index) ==
    LET old_job == d.jobs[old_job_index + 1]
        acc == TaskLoop(d, old_job.tasks, 0, ExtractInit)
        tasks_set == Range(old_job.tasks)
    IN  [d EXCEPT !.constraints =
            [cname \in DOMAIN d.constraints |->
                IF cname = "mode_dependencies"
                THEN ModeDepAfter(d, tasks_set, acc.modes_translation_reversed)
                ELSE IF cname \in Range(allowed_constraints)
                THEN TwoTaskAfter(d.constraints, cname, tasks_set,
                                  acc.task_translation_reversed)
                ELSE d.constraints[cname]]]

\* the whole function; ok = FALSE when an exception leaves it (exc names it).
\* The function returns (new_data, task_translation, modes_translation); the two
\* reversed dicts are its locals, kept here for the claims about the translator.
filter_problem_data_per_job(d, old_job_index) ==
    LET old_job == d.jobs[old_job_index + 1]
        acc == TaskLoop(d, old_job.tasks, 0, ExtractInit)
        new_job_data ==
            Job([k \in DOMAIN old_job.tasks |->
                    acc.task_translation_reversed[old_job.tasks[k]]])
        new_task_data ==
            [k \in DOMAIN acc.tasks |-> Task(0, acc.tasks[k].allow_idle)]
        tasks_set == Range(old_job.tasks)
        two_task == KindLoop(d.constraints, 1, tasks_set,
                             acc.task_translation_reversed,
                             FreshConstraints(d.constraints))
        md == ModeDepLoop(d, d.constraints["mode_dependencies"], tasks_set,
                          acc.modes_translation_reversed, << >>)
    IN  IF md.raised # NoExc
        THEN [ok |-> FALSE, exc |-> md.raised, new_data |-> << >>,
              task_translation |-> EmptyDict, modes_translation |-> EmptyDict,
              task_translation_reversed |-> EmptyDict,
              modes_translation_reversed |-> EmptyDict]
        ELSE [ok |-> TRUE, exc |-> NoExc,
              new_data |->
                 ProblemData(<< new_job_data >>, new_task_data, d.resources,
                    acc.modes_for_problem_data,
                    [two_task EXCEPT !["mode_dependencies"] = md.valid_cons]),
              task_translation |-> acc.task_translation,
              modes_translation |-> acc.modes_translation,
              task_translation_reversed |-> acc.task_translation_reversed,
              modes_translation_reversed |-> acc.modes_translation_reversed]

----------------------------------------------------------------------------
(* The explored problem instances *)

TaskIds == 0 .. (NumTasks - 1)

\* a job's task list: one or two distinct tasks, in any order
JobTaskLists ==
    {<< a >> : a \in TaskIds} \cup
    {l \in TaskIds \X TaskIds : l[1] # l[2]}

\* two jobs; a task may be in one job, in both, or in none
Layouts == {<< l0, l1 >> : l0 \in JobTaskLists, l1 \in JobTaskLists}

TaskJob(layout, t) ==
    IF \E j \in DOMAIN layout : t \in Range(layout[j])
    THEN (CHOOSE j \in DOMAIN layout :
            /\ t \in Range(layout[j])
            /\ \A i \in DOMAIN layout : t \in Range(layout[i]) => j <= i) - 1
    ELSE -1    \* Task.job = None

InstanceTasks(layout) ==
    [i \in 1 .. NumTasks |-> Task(TaskJob(layout, i - 1), (i - 1) % 2 = 1)]

\* NumTasks + 1 modes, owners NumTasks-1, ..., 0, NumTasks-1: the modes of a task
\* are not adjacent and the last task has two
NumModes == NumTasks + 1
InstanceModes ==
    [i \in 1 .. NumModes |->
        Mode((2 * NumTasks - i) % NumTasks, << (i - 1) % 2 >>,
             1 + ((i - 1) % 3), << 1 + (i % 2) >>)]

InstanceResources == << [machine |-> 0], [machine |-> 1] >>

TwoTask(kind, has, t1, t2, rest) ==
    [kind |-> kind, has_task12 |-> has, task1 |-> t1, task2 |-> t2, rest |-> rest]
ModeDep(has, m1, ms2) == [has_modes |-> has, mode1 |-> m1, modes2 |-> ms2]

\* a chain 0->1->...->NumTasks (the last one names a task that does not exist),
\* one pair against the task order, and one object without task1/task2
TwoTaskPool ==
    {TwoTask("end_before_start", TRUE, a, a + 1, a) : a \in TaskIds} \cup
    {TwoTask("identical_resources", TRUE, NumTasks - 1, 0, 0),
     TwoTask("setup_times", FALSE, -1, -1, 9)}

ModeDepPool ==
    {ModeDep(TRUE, 0, << NumModes - 1 >>),       \* both modes of the last task
     ModeDep(TRUE, 0, << NumModes - 1, 1 >>),    \* a dependent mode of another task
     ModeDep(TRUE, 1, << 2 >>),
     ModeDep(TRUE, NumModes, << 0 >>),           \* driving mode does not exist
     ModeDep(TRUE, -1, << 0 >>),                 \* Python reads modes[-1]
     ModeDep(TRUE, 2, << NumModes >>),           \* dependent mode does not exist
     ModeDep(FALSE, -1, << >>)}                  \* no mode1/modes2

SeqUpTo(S, n) == UNION {[1 .. k -> S] : k \in 0 .. n}

Container(tt, md) ==
    [k \in ConstraintAttrs |->
        IF k = "mode_dependencies" THEN md
        ELSE IF k = "select_all_or_none" THEN << [tasks |-> << 0, 1 >>] >>
        ELSE LET IsKind(c) == c.kind = k IN SelectSeq(tt, IsKind)]

Instance(layout, tt, md) ==
    ProblemData([j \in DOMAIN layout |-> Job(layout[j])], InstanceTasks(layout),
                InstanceResources, InstanceModes, Container(tt, md))

\* constraint lists for the calls of the extractor
FilterConstraintChoices ==
    {<< tt, << >> >> : tt \in SeqUpTo(TwoTaskPool, MaxCons)} \cup
    {<< tt, md >> : tt \in SeqUpTo(TwoTaskPool, 1), md \in SeqUpTo(ModeDepPool, 1)} \cup
    {<< << >>, md >> : md \in [1 .. 2 -> ModeDepPool]}

\* constraint lists for the runs of the orchestrator
RunConstraintChoices ==
    {<< << >>, << >> >>,
     << << TwoTask("end_before_start", TRUE, 0, 1, 0) >>,
        << ModeDep(TRUE, 0, << NumModes - 1, 1 >>) >> >>}

NoFilt == [called |-> FALSE]
NoReturn == [returned |-> FALSE]
NoMain == [pc |-> "not run"]

InitRun ==
    /\ pc = "loop"
    /\ job_index = 0
    /\ relative_time_point = 0          \* line 141
    /\ scheduled_tasks = << >>          \* line 142
    /\ exc = NoExc
    /\ ret = NoReturn
    /\ log = << >>
    /\ n_extracted = 0
    /\ n_solved = 0
    /\ filt = NoFilt
    /\ data0 = data
    /\ harness = NoMain

\* a direct call filter_problem_data_per_job(data, j); earlier records the jobs
\* of the calls made before it
Filter ==
    /\ pc = "idle"
    /\ \E j \in 0 .. (Len(data.jobs) - 1) :
          /\ filt' = [called |-> TRUE, job |-> j,
                      out |-> filter_problem_data_per_job(data, j),
                      earlier |-> IF filt.called THEN filt.earlier \cup {filt.job}
                                  ELSE {}]
          /\ data' = DataAfterFilter(data, j)
    /\ UNCHANGED <<pc, job_index, relative_time_point, scheduled_tasks, exc,
                   ret, log, n_extracted, n_solved, data0, harness>>

InitFilter ==
    /\ \E layout \in Layouts, c \in FilterConstraintChoices :
          data = Instance(layout, c[1], c[2])
    /\ pc = "idle"
    /\ job_index = 0
    /\ relative_time_point = 0
    /\ scheduled_tasks = << >>
    /\ exc = NoExc
    /\ ret = NoReturn
    /\ log = << >>
    /\ n_extracted = 0
    /\ n_solved = 0
    /\ filt = NoFilt
    /\ data0 = data
    /\ harness = NoMain

NextFilter == Filter
SpecFilter == InitFilter /\ [][NextFilter]_vars

----------------------------------------------------------------------------
(* The external solver, lines 149-157.  Its answer is any schedule of the   *)
(* subproblem in LOCAL indices: per task one of its modes, a start, and      *)
(* end = start + duration.  It may also raise, or return no best solution.  *)

LocalModesOf(new_data, k) ==
    {m \in 0 .. (Len(new_data.modes) - 1) : new_data.modes[m + 1].task = k}

TaskChoices(new_data, k) ==
    {TaskData(m, s, s + new_data.modes[m + 1].duration, new_data.modes[m + 1].resources) :
        m \in LocalModesOf(new_data, k), s \in 0 .. MaxStart}

SolverSolutions(new_data) ==
    LET n == Len(new_data.tasks)
        all == UNION {TaskChoices(new_data, k) : k \in 0 .. (n - 1)}
    IN  {sol \in [1 .. n -> all] : \A i \in 1 .. n : sol[i] \in TaskChoices(new_data, i - 1)}

\* Solution.makespan: the latest end of its tasks
Makespan(tasks) == IF tasks = << >> THEN 0 ELSE Max({tasks[i].end : i \in DOMAIN tasks})

----------------------------------------------------------------------------
(* find_initial_solution_by_solving_per_job, lines 141-177 *)

\* seeded fault: the end is not shifted
StitchEntry_EndNotShifted(old_task_data, modes_translation, offset) ==
    TaskData(modes_translation[old_task_data.mode],
             old_task_data.start + offset,
             old_task_data.end,
             old_task_data.resources)

\* lines 162-167
StitchEntry(old_task_data, modes_translation, offset) ==
    TaskData(modes_translation[old_task_data.mode],
             old_task_data.start + offset,
             old_task_data.end + offset,
             old_task_data.resources)

\* seeded fault: the buffer is left out
AdvanceOffset_NoBuffer(offset, makespan) == offset + makespan

\* seeded fault: the makespan is left out
AdvanceOffset_BufferOnly(offset, makespan) == offset + BUFFER

\* line 170
AdvanceOffset(offset, makespan) == offset + makespan + BUFFER

Looping == pc = "loop" /\ job_index < Len(data.jobs)

\* one round of the loop in which filter_problem_data_per_job raises (line 146)
IterFilterRaises ==
    /\ Looping
    /\ LET f == filter_problem_data_per_job(data, job_index) IN
         /\ ~ f.ok
         /\ exc' = f.exc
    /\ pc' = "raised"
    /\ n_extracted' = n_extracted + 1
    /\ data' = DataAfterFilter(data, job_index)
    /\ UNCHANGED <<job_index, relative_time_point, scheduled_tasks, ret, log,
                   n_solved, filt, data0, harness>>

\* one round in which new_model.solve raises (line 151)
IterSolverRaises ==
    /\ Looping
    /\ filter_problem_data_per_job(data, job_index).ok
    /\ exc' = "SolverError"
    /\ pc' = "raised"
    /\ n_extracted' = n_extracted + 1
    /\ n_solved' = n_solved + 1
    /\ data' = DataAfterFilter(data, job_index)
    /\ UNCHANGED <<job_index, relative_time_point, scheduled_tasks, ret, log, filt,
                   data0, harness>>

\* seeded fault: a missing best solution is skipped and the loop goes on
IterNoBest_Continues ==
    /\ Looping
    /\ filter_problem_data_per_job(data, job_index).ok
    /\ job_index' = job_index + 1
    /\ n_extracted' = n_extracted + 1
    /\ n_solved' = n_solved + 1
    /\ data' = DataAfterFilter(data, job_index)
    /\ UNCHANGED <<pc, relative_time_point, scheduled_tasks, exc, ret, log, filt,
                   data0, harness>>

\* one round in which result.best is None: result.best.makespan raises (line 157)
IterNoBest ==
    /\ Looping
    /\ filter_problem_data_per_job(data, job_index).ok
    /\ exc' = "AttributeError"
    /\ pc' = "raised"
    /\ n_extracted' = n_extracted + 1
    /\ n_solved' = n_solved + 1
    /\ data' = DataAfterFilter(data, job_index)
    /\ UNCHANGED <<job_index, relative_time_point, scheduled_tasks, ret, log, filt,
                   data0, harness>>

\* one round in which the subproblem is solved and stitched (lines 146-171)
IterStitch ==
    /\ Looping
    /\ LET f == filter_problem_data_per_job(data, job_index) IN
         /\ f.ok
         /\ \E best \in SolverSolutions(f.new_data) :
              LET makespan == Makespan(best) IN
              /\ scheduled_tasks' = scheduled_tasks \o
                    [k \in DOMAIN best |->
                        StitchEntry(best[k], f.modes_translation, relative_time_point)]
              /\ relative_time_point' = AdvanceOffset(relative_time_point, makespan)
              /\ log' = Append(log,
                    [job |-> job_index, offset |-> relative_time_point,
                     first |-> Len(scheduled_tasks), best |-> best,
                     task_translation |-> f.task_translation,
                     modes_translation |-> f.modes_translation])
    /\ job_index' = job_index + 1
    /\ n_extracted' = n_extracted + 1
    /\ n_solved' = n_solved + 1
    /\ data' = DataAfterFilter(data, job_index)
    /\ UNCHANGED <<pc, exc, ret, filt, data0, harness>>

LoopDone == pc = "loop" /\ job_index >= Len(data.jobs)

\* lines 174-177, the assertion holds
AssembleReturn ==
    /\ LoopDone
    /\ Len(scheduled_tasks) = Len(data.tasks)
    /\ ret' = [returned |-> TRUE,
               initial_solution |-> [tasks |-> scheduled_tasks],
               relative_time_point |-> relative_time_point]
    /\ pc' = "returned"
    /\ UNCHANGED <<data, job_index, relative_time_point, scheduled_tasks, exc, log,
                   n_extracted, n_solved, filt, data0, harness>>

\* seeded fault: no assertion, the assembled list is returned whatever its length
AssembleAssertFails_ReturnsPartial ==
    /\ LoopDone
    /\ Len(scheduled_tasks) # Len(data.tasks)
    /\ ret' = [returned |-> TRUE,
               initial_solution |-> [tasks |-> scheduled_tasks],
               relative_time_point |-> relative_time_point]
    /\ pc' = "returned"
    /\ UNCHANGED <<data, job_index, relative_time_point, scheduled_tasks, exc, log,
                   n_extracted, n_solved, filt, data0, harness>>

\* lines 174-175, the assertion fails
AssembleAssertFails ==
    /\ LoopDone
    /\ Len(scheduled_tasks) # Len(data.tasks)
    /\ exc' = "AssertionError"
    /\ pc' = "raised"
    /\ UNCHANGED <<data, job_index, relative_time_point, scheduled_tasks, ret, log,
                   n_extracted, n_solved, filt, data0, harness>>

Init ==
    /\ \E layout \in Layouts, c \in RunConstraintChoices :
          data = Instance(layout, c[1], c[2])
    /\ InitRun

Next ==
    \/ IterFilterRaises
    \/ IterSolverRaises
    \/ IterNoBest
    \/ IterStitch
    \/ AssembleReturn
    \/ AssembleAssertFails

Spec == Init /\ [][Next]_vars

----------------------------------------------------------------------------
(* benchmark_instance.main, lines 93-258. The orchestrator above runs inside it
   when args.warmstart is set. The exceptions are named by their class. *)

\* a field of a summary row: None, or a value
None == [none |-> TRUE]
Val(v) == [none |-> FALSE, v |-> v]

\* the base class of an exception class (Python's built-in hierarchy)
Base(cls) ==
    CASE cls \in {"TimeoutError", "FileNotFoundError"} -> "OSError"
      [] cls \in {"KeyError", "IndexError"} -> "LookupError"
      [] cls = "ZeroDivisionError" -> "ArithmeticError"
      [] cls = "Exception" -> "BaseException"
      [] OTHER -> "Exception"

\* issubclass(cls, base), as an except clause tests it
RECURSIVE IsSubclass(_, _)
IsSubclass(cls, base) ==
    \/ cls = base
    \/ cls # "BaseException" /\ IsSubclass(Base(cls), base)

\* f"{e!r}" of line 242: the class name and the arguments in parentheses
Repr(cls) == cls \o "(...)"

\* seeded fault: the try statement has no except Exception clause
ExceptClause_NoGeneric(cls) ==
    IF IsSubclass(cls, "TimeoutError") THEN "TimeoutError"
    ELSE IF IsSubclass(cls, "MemoryError") THEN "MemoryError"
    ELSE "none"

\* lines 181, 204, 230: the first except clause that matches; "none" when the
\* exception leaves the try statement
ExceptClause(cls) ==
    IF IsSubclass(cls, "TimeoutError") THEN "TimeoutError"
    ELSE IF IsSubclass(cls, "MemoryError") THEN "MemoryError"
    ELSE IF IsSubclass(cls, "Exception") THEN "Exception"
    ELSE "none"

\* lines 182-197, 206-223, 232-249: summary = result_dict | config of a handler
\* (time_limit, solver and instance_name are the arguments of the run)
HandlerRow(clause, cls, warmstart) ==
    [status |-> CASE clause = "TimeoutError" -> "Time-Limit-Exception"
                  [] clause = "MemoryError" -> "Memory-Exception"
                  [] OTHER -> Repr(cls),
     objective |-> None, runtime |-> None, warmstart_time |-> None,
     lower_bound |-> None, gap |-> None,
     warmstart |-> warmstart, warmstart_makespan |-> None]

\* line 164 without the rounding: the explored objectives and bounds divide
\* exactly
Gap(objective, lower_bound) == (100 * (objective - lower_bound)) \div lower_bound

\* lines 158-174: summary = result_dict | config of a finished solve; the
\* clock readings of runtime and warmstart_time are taken as 1 and 0
ResultRow(status, objective, lower_bound, warmstart, warmstart_makespan) ==
    [status |-> status, objective |-> Val(objective), runtime |-> Val(1),
     warmstart_time |-> Val(0), lower_bound |-> Val(lower_bound),
     gap |-> Val(Gap(objective, lower_bound)),
     warmstart |-> warmstart, warmstart_makespan |-> warmstart_makespan]

\* what parse_instance raises (parse.py line 25, and from_json on a bad file)
ParseExceptions == {"FileNotFoundError", "ValueError", "MemoryError"}

\* what a solve raises: out of time, out of memory, any other failure
SolveExceptions == {"TimeoutError", "MemoryError", "RuntimeError"}

\* result.status, result.objective and result.lower_bound of model.solve
SolveResults ==
    {[status |-> st, objective |-> 2, lower_bound |-> lb] :
        st \in {"Optimal", "Feasible"}, lb \in 0 .. 2}

\* line 135 as seen by main: the class of the exception that left the
\* orchestrator
WarmstartExceptions ==
    IF exc = "SolverError" THEN SolveExceptions ELSE {exc}

\* lines 119-126, parse_instance returns; line 135 enters the orchestrator
MainParse ==
    /\ harness.pc = "parse"
    /\ harness' = [harness EXCEPT
                     !.pc = IF harness.warmstart THEN "warmstart" ELSE "solve"]
    /\ pc' = IF harness.warmstart THEN "loop" ELSE pc
    /\ UNCHANGED <<data, job_index, relative_time_point, scheduled_tasks, exc, ret,
                   log, n_extracted, n_solved, filt, data0>>

\* line 126, parse_instance raises
MainParseRaises ==
    /\ harness.pc = "parse"
    /\ \E cls \in ParseExceptions :
          harness' = [harness EXCEPT !.pc = "except", !.raised = cls]
    /\ UNCHANGED <<data, pc, job_index, relative_time_point, scheduled_tasks, exc,
                   ret, log, n_extracted, n_solved, filt, data0>>

\* lines 135-142, the orchestrator returns (solution, relative_time_point)
MainWarmstartReturns ==
    /\ harness.pc = "warmstart"
    /\ pc = "returned"
    /\ harness' = [harness EXCEPT
                     !.pc = "solve",
                     !.warmstart_makespan = Val(ret.relative_time_point)]
    /\ UNCHANGED <<data, pc, job_index, relative_time_point, scheduled_tasks, exc,
                   ret, log, n_extracted, n_solved, filt, data0>>

\* line 135, an exception leaves the orchestrator
MainWarmstartRaises ==
    /\ harness.pc = "warmstart"
    /\ pc = "raised"
    /\ \E cls \in WarmstartExceptions :
          harness' = [harness EXCEPT !.pc = "except", !.raised = cls]
    /\ UNCHANGED <<data, pc, job_index, relative_time_point, scheduled_tasks, exc,
                   ret, log, n_extracted, n_solved, filt, data0>>

\* lines 153-179, model.solve returns: the row is built, appended and written,
\* unless the division of line 164 raises
MainSolve ==
    /\ harness.pc = "solve"
    /\ \E result \in SolveResults :
          IF result.lower_bound = 0
          THEN harness' = [harness EXCEPT !.pc = "except",
                                          !.raised = "ZeroDivisionError"]
          ELSE LET summary == ResultRow(result.status, result.objective,
                                        result.lower_bound, harness.warmstart,
                                        harness.warmstart_makespan)
                   summary_list == Append(harness.summary_list, summary)
               IN  harness' = [harness EXCEPT !.pc = "return",
                                              !.summary_list = summary_list,
                                              !.csv = summary_list]
    /\ UNCHANGED <<data, pc, job_index, relative_time_point, scheduled_tasks, exc,
                   ret, log, n_extracted, n_solved, filt, data0>>

\* line 153, model.solve raises
MainSolveRaises ==
    /\ harness.pc = "solve"
    /\ \E cls \in SolveExceptions :
          harness' = [harness EXCEPT !.pc = "except", !.raised = cls]
    /\ UNCHANGED <<data, pc, job_index, relative_time_point, scheduled_tasks, exc,
                   ret, log, n_extracted, n_solved, filt, data0>>

\* lines 181-254: the matching handler appends its row and writes the file;
\* an exception that no clause matches leaves main. failure is history: the
\* class of the exception that was handled
MainExcept ==
    /\ harness.pc = "except"
    /\ LET clause == ExceptClause(harness.raised) IN
         IF clause = "none"
         THEN harness' = [harness EXCEPT !.pc = "propagated"]
         ELSE LET summary == HandlerRow(clause, harness.raised, harness.warmstart)
                  summary_list == Append(harness.summary_list, summary)
              IN  harness' = [harness EXCEPT !.pc = "return",
                                             !.summary_list = summary_list,
                                             !.csv = summary_list,
                                             !.raised = NoExc,
                                             !.failure = harness.raised]
    /\ UNCHANGED <<data, pc, job_index, relative_time_point, scheduled_tasks, exc,
                   ret, log, n_extracted, n_solved, filt, data0>>

\* lines 256-258: return 0
MainReturn ==
    /\ harness.pc = "return"
    /\ harness' = [harness EXCEPT !.pc = "done", !.returned = Val(0)]
    /\ UNCHANGED <<data, pc, job_index, relative_time_point, scheduled_tasks, exc,
                   ret, log, n_extracted, n_solved, filt, data0>>

\* lines 93-116: the arguments are parsed and summary_list is empty; the
\* orchestrator has not been called
InitMain ==
    /\ \E layout \in Layouts, c \in RunConstraintChoices :
          data = Instance(layout, c[1], c[2])
    /\ pc = "not called"
    /\ job_index = 0
    /\ relative_time_point = 0
    /\ scheduled_tasks = << >>
    /\ exc = NoExc
    /\ ret = NoReturn
    /\ log = << >>
    /\ n_extracted = 0
    /\ n_solved = 0
    /\ filt = NoFilt
    /\ data0 = data
    /\ \E warmstart \in BOOLEAN :
          harness = [pc |-> "parse", warmstart |-> warmstart,
                     summary_list |-> << >>, csv |-> << >>,
                     warmstart_makespan |-> None, raised |-> NoExc,
                     failure |-> NoExc, returned |-> None]

NextMain ==
    \/ MainParse
    \/ MainParseRaises
    \/ IterFilterRaises
    \/ IterSolverRaises
    \/ IterNoBest
    \/ IterStitch
    \/ AssembleReturn
    \/ AssembleAssertFails
    \/ MainWarmstartReturns
    \/ MainWarmstartRaises
    \/ MainSolve
    \/ MainSolveRaises
    \/ MainExcept
    \/ MainReturn

SpecMain == InitMain /\ [][NextMain]_vars

----------------------------------------------------------------------------
(* Vocabulary of the claims *)

\* the task that owns global mode m of the instance
Owner(m) == data.modes[m + 1].task
JobTasks(j) == Range(data.jobs[j + 1].tasks)
AllTasks == 0 .. (Len(data.tasks) - 1)
AllModes == 0 .. (Len(data.modes) - 1)
Returned == pc = "returned"

\* every task of the instance is in the task list of exactly one job
JobsPartitionTasks ==
    \A t \in AllTasks : Cardinality({j \in 0 .. (Len(data.jobs) - 1) : t \in JobTasks(j)}) = 1

\* sum of (makespan + 12) over the first n stitched jobs
SpanSum(n) == SumSeq([i \in 1 .. n |-> Makespan(log[i].best) + 12])

----------------------------------------------------------------------------
(* Claims about find_initial_solution_by_solving_per_job (specification Spec) *)

\* C1 (as claimed): whenever a solution is returned it has as many entries as
\* the instance has tasks, and every task of the instance owns exactly one entry.
C1_Completeness ==
    Returned =>
        LET sol == ret.initial_solution.tasks IN
        /\ Len(sol) = Len(data.tasks)
        /\ \A t \in AllTasks :
              Cardinality({i \in DOMAIN sol : Owner(sol[i].mode) = t}) = 1

\* C2 (as claimed): in the returned solution the entry at position t belongs to
\* task t, for every position t, whatever the assignment of the tasks to the jobs
\* (each task in exactly one job).
C2_Placement ==
    (Returned /\ JobsPartitionTasks) =>
        LET sol == ret.initial_solution.tasks IN
        \A t \in 0 .. (Len(sol) - 1) : Owner(sol[t + 1].mode) = t

\* C3: the offset is 0 before the first job, after jobs 0..k it is the sum of
\* (makespan + 12) over those jobs, and the returned offset is the sum over all
\* jobs of the instance.
C3_OffsetComposition ==
    /\ relative_time_point = SpanSum(Len(log))
    /\ \A i \in DOMAIN log : log[i].job = i - 1 /\ log[i].offset = SpanSum(i - 1)
    /\ Returned =>
          /\ Len(log) = Len(data.jobs)
          /\ ret.relative_time_point = SpanSum(Len(data.jobs))

\* C3 witness: two jobs with makespans 2 and 4: 14 after job 0, 30 returned
C3_Witness ==
    /\ Returned
    /\ Len(log) = 2
    /\ Makespan(log[1].best) = 2
    /\ Makespan(log[2].best) = 4
    /\ log[2].offset = 14
    /\ ret.relative_time_point = 30

\* C4: the global entry made from local entry k of job j has start and end
\* shifted by the offset accumulated before job j, the same resources, and the
\* mode mode_translator[local mode], a mode of the instance owned by a task of job j.
C4_EntryTranslation ==
    \A i \in DOMAIN log :
        LET e == log[i] IN
        /\ e.offset = SpanSum(i - 1)
        /\ \A k \in DOMAIN e.best :
              LET g == scheduled_tasks[e.first + k]
                  l == e.best[k]
              IN  /\ g.start = l.start + e.offset
                  /\ g.end = l.end + e.offset
                  /\ g.end - g.start = l.end - l.start
                  /\ g.resources = l.resources
                  /\ g.mode = e.modes_translation[l.mode]
                  /\ g.mode \in AllModes
                  /\ Owner(g.mode) \in JobTasks(e.job)

\* C4 witness: an entry of the second job, shifted by a positive offset, whose
\* global mode index differs from its local one
C4_Witness ==
    /\ Len(log) = 2
    /\ log[2].offset > 0
    /\ \E k \in DOMAIN log[2].best :
          /\ log[2].modes_translation[log[2].best[k].mode] # log[2].best[k].mode
          /\ scheduled_tasks[log[2].first + k].start > log[2].best[k].start

\* a solver call whose answer was not stitched: the solve of job job_index failed
SolveFailed == n_solved > Len(log)

\* C10: when the solve of job j fails the orchestrator is left by an exception
\* that is neither the assembly assertion nor an extraction error; the schedule
\* and the offset are those of the jobs before j, no later job was extracted or
\* solved, and nothing is returned.
C10_SolveFailureAborts ==
    SolveFailed =>
        /\ pc = "raised"
        /\ exc \in {"AttributeError", "SolverError"}
        /\ ret = NoReturn
        /\ Len(log) = job_index
        /\ Len(scheduled_tasks) = SumSeq([i \in DOMAIN log |-> Len(log[i].best)])
        /\ \A i \in DOMAIN scheduled_tasks :
              \E j \in 0 .. (job_index - 1) : Owner(scheduled_tasks[i].mode) \in JobTasks(j)
        /\ relative_time_point = SpanSum(job_index)
        /\ n_extracted = job_index + 1
        /\ n_solved = job_index + 1

\* C10 witness: the solve of the second job fails after the first was stitched
C10_Witness ==
    /\ SolveFailed
    /\ job_index = 1
    /\ Len(scheduled_tasks) > 0
    /\ exc = "AttributeError"

----------------------------------------------------------------------------
(* Claims about filter_problem_data_per_job (specification SpecFilter) *)

Extracted == filt.called /\ filt.out.ok
\* the task list of the extracted job, the subproblem and the two returned dicts
JT == data.jobs[filt.job + 1].tasks
P_j == filt.out.new_data
task_translator == filt.out.task_translation
mode_translator == filt.out.modes_translation
LocalTasks == 0 .. (Len(P_j.tasks) - 1)
LocalModes == 0 .. (Len(P_j.modes) - 1)
\* the modes of the instance owned by a task of the extracted job
ModesOfJob == {g \in AllModes : Owner(g) \in Range(JT)}
\* the position of global task t in the job's task list
LocalTaskOf(t) == CHOOSE k \in 0 .. (Len(JT) - 1) : JT[k + 1] = t
\* the rank of global mode g in the subproblem: modes are laid out task by task in
\* the order of the job's task list, and by global index within a task
ModeBefore(a, b) ==
    \/ LocalTaskOf(Owner(a)) < LocalTaskOf(Owner(b))
    \/ Owner(a) = Owner(b) /\ a < b
LocalModeOf(g) == Cardinality({a \in ModesOfJob : ModeBefore(a, g)})

\* C5: the subproblem has one job, one task per task of job j in the order of
\* the job's task list with allow_idle kept, and exactly the modes of the job's
\* tasks, each with the resources, duration and demands of its global mode and
\* with the local index of its owner as task.
C5_ExtractionContent ==
    Extracted =>
        /\ Len(P_j.jobs) = 1
        /\ Len(P_j.tasks) = Len(JT)
        /\ P_j.jobs[1].tasks = [k \in 1 .. Len(JT) |-> k - 1]
        /\ \A k \in 1 .. Len(JT) :
              P_j.tasks[k].allow_idle = data.tasks[JT[k] + 1].allow_idle
        /\ DOMAIN mode_translator = LocalModes
        /\ {mode_translator[m] : m \in LocalModes} = ModesOfJob
        /\ Len(P_j.modes) = Cardinality(ModesOfJob)
        /\ \A m \in LocalModes :
              LET lm == P_j.modes[m + 1]
                  gm == data.modes[mode_translator[m] + 1]
              IN  /\ lm.resources = gm.resources
                  /\ lm.duration = gm.duration
                  /\ lm.demands = gm.demands
                  /\ lm.task \in LocalTasks
                  /\ JT[lm.task + 1] = gm.task

\* C5 witness: a job of two tasks listed against the task order, three modes
C5_Witness ==
    /\ Extracted
    /\ Len(JT) = 2
    /\ JT[1] > JT[2]
    /\ Len(P_j.modes) = 3

\* the two-task constraints of one kind that the claim says are kept, translated
ExpectedTwoTask(kind) ==
    LET Kept(c) == c.has_task12 /\ c.task1 \in Range(JT) /\ c.task2 \in Range(JT)
        kept == SelectSeq(data.constraints[kind], Kept)
    IN  [i \in DOMAIN kept |->
            [kept[i] EXCEPT !.task1 = LocalTaskOf(kept[i].task1),
                            !.task2 = LocalTaskOf(kept[i].task2)]]

\* C6: for every allow-listed kind the subproblem holds exactly the constraints
\* of the instance whose two tasks are both in job j, in their order, with task1
\* and task2 replaced by local indices and nothing else changed.
C6_TwoTaskFiltering ==
    Extracted =>
        \A i \in DOMAIN allowed_constraints :
            P_j.constraints[allowed_constraints[i]] = ExpectedTwoTask(allowed_constraints[i])

\* C6 witness: one constraint kept with changed indices, one of the same kind dropped
C6_Witness ==
    /\ Extracted
    /\ \E i \in DOMAIN allowed_constraints :
          LET old == data.constraints[allowed_constraints[i]]
              new == P_j.constraints[allowed_constraints[i]]
          IN  /\ Len(old) = 2
              /\ Len(new) = 1
              /\ \E k \in DOMAIN old :
                    /\ old[k].task1 \in Range(JT)
                    /\ old[k].task2 \in Range(JT)
                    /\ new[1].task1 # old[k].task1
                    /\ new[1].rest = old[k].rest

\* a mode dependency with both fields whose modes all exist in the instance
WellFormedModeDep(c) ==
    /\ c.has_modes
    /\ c.mode1 \in AllModes
    /\ \A k \in DOMAIN c.modes2 : c.modes2[k] \in AllModes
AllModeDepsWellFormed ==
    \A k \in DOMAIN data.constraints["mode_dependencies"] :
        WellFormedModeDep(data.constraints["mode_dependencies"][k])

\* C7 (as claimed): an extraction from an instance whose jobs partition the
\* tasks and whose mode dependencies are all well formed yields a subproblem that holds exactly the dependencies whose
\* driving mode is owned by a task of job j, and mode_translator maps their
\* mode1 and modes2 back to the original indices.
C7_ModeDependencyFiltering ==
    (filt.called /\ JobsPartitionTasks /\ AllModeDepsWellFormed) =>
        /\ filt.out.ok
        /\ LET Driven(c) == Owner(c.mode1) \in Range(JT)
               kept == SelectSeq(data.constraints["mode_dependencies"], Driven)
               new == P_j.constraints["mode_dependencies"]
           IN  /\ Len(new) = Len(kept)
               /\ \A i \in DOMAIN kept :
                     /\ new[i].mode1 \in LocalModes
                     /\ mode_translator[new[i].mode1] = kept[i].mode1
                     /\ Len(new[i].modes2) = Len(kept[i].modes2)
                     /\ \A k \in DOMAIN kept[i].modes2 :
                           /\ new[i].modes2[k] \in LocalModes
                           /\ mode_translator[new[i].modes2[k]] = kept[i].modes2[k]

\* C8: both dicts are injective, they cover exactly the tasks of job j and the
\* modes of those tasks with local sides 0..n-1 and 0..m-1, local -> global ->
\* local and global -> local -> global are the identity, and a lookup outside the
\* domain raises.
C8_IndexTranslator ==
    Extracted =>
        LET tr == filt.out.task_translation_reversed
            mr == filt.out.modes_translation_reversed
        IN  /\ DOMAIN task_translator = 0 .. (Len(JT) - 1)
            /\ {task_translator[k] : k \in DOMAIN task_translator} = Range(JT)
            /\ \A a \in DOMAIN task_translator, b \in DOMAIN task_translator :
                  task_translator[a] = task_translator[b] => a = b
            /\ DOMAIN tr = Range(JT)
            /\ \A k \in DOMAIN task_translator : tr[task_translator[k]] = k
            /\ \A t \in DOMAIN tr : task_translator[tr[t]] = t
            /\ DOMAIN mode_translator = 0 .. (Cardinality(ModesOfJob) - 1)
            /\ {mode_translator[m] : m \in DOMAIN mode_translator} = ModesOfJob
            /\ \A a \in DOMAIN mode_translator, b \in DOMAIN mode_translator :
                  mode_translator[a] = mode_translator[b] => a = b
            /\ DOMAIN mr = ModesOfJob
            /\ \A m \in DOMAIN mode_translator : mr[mode_translator[m]] = m
            /\ \A g \in DOMAIN mr : mode_translator[mr[g]] = g
            /\ \A g \in ModesOfJob : mr[g] = LocalModeOf(g)
            /\ \A x \in -1 .. (Len(data.modes) + 1) :
                  /\ x \notin DOMAIN task_translator => Lookup(task_translator, x).raised = KeyError
                  /\ x \notin DOMAIN mode_translator => Lookup(mode_translator, x).raised = KeyError
                  /\ x \notin DOMAIN tr => Lookup(tr, x).raised = KeyError
                  /\ x \notin DOMAIN mr => Lookup(mr, x).raised = KeyError

\* C8 witness: two tasks and three modes, neither dict the identity
C8_Witness ==
    /\ Extracted
    /\ Len(JT) = 2
    /\ Cardinality(ModesOfJob) = 3
    /\ \E k \in DOMAIN task_translator : task_translator[k] # k
    /\ \E m \in DOMAIN mode_translator : mode_translator[m] # m

\* C9 (as claimed): a call of the extractor returns a subproblem also when a
\* mode dependency driven by a mode of job j names a dependent mode of a task
\* outside job j (here: the jobs partition the tasks, every mode dependency has
\* its fields and names modes that exist).
C9_TolerantExtraction ==
    (filt.called /\ JobsPartitionTasks /\ AllModeDepsWellFormed) => filt.out.ok

----------------------------------------------------------------------------
(* Further claims about find_initial_solution_by_solving_per_job (Spec) *)

\* C11: once every job is stitched, a number of entries different from the
\* number of tasks ends the call with AssertionError and nothing is returned; a
\* returned solution has one entry per task; the assertion is never the
\* condition of a failed solve.
C11_AssemblyCheck ==
    /\ Returned => Len(ret.initial_solution.tasks) = Len(data.tasks)
    /\ (/\ pc # "loop"
        /\ job_index = Len(data.jobs)
        /\ Len(scheduled_tasks) # Len(data.tasks))
          => (pc = "raised" /\ exc = "AssertionError" /\ ~ ret.returned)
    /\ SolveFailed => exc # "AssertionError"
    /\ exc = "AssertionError" => (Len(log) = Len(data.jobs) /\ ~ SolveFailed)

\* C11 witness: all jobs stitched, a task in two jobs' lists gives one entry too
\* many, and the call ended with the assertion
C11_Witness ==
    /\ exc = "AssertionError"
    /\ Len(log) = Len(data.jobs)
    /\ Len(scheduled_tasks) > Len(data.tasks)
    /\ \E t \in AllTasks : \A j \in 0 .. (Len(data.jobs) - 1) : t \in JobTasks(j)

\* the entries of scheduled_tasks made in round i of the loop
EntriesOf(i) == {scheduled_tasks[log[i].first + k] : k \in DOMAIN log[i].best}

\* C14: for two jobs i < k in job-list order every entry of job k starts at
\* least 12 after the latest end of the entries of job i, so entries of
\* different jobs do not overlap in time.
C14_TemporalLayering ==
    \A i \in DOMAIN log, k \in DOMAIN log :
        i < k =>
            \A a \in EntriesOf(i), b \in EntriesOf(k) :
                /\ b.start >= a.end + 12
                /\ b.start >= Makespan(log[i].best) + 12
                /\ ~ (a.start < b.end /\ b.start < a.end)

\* C14 witness: an entry of job 1 that starts exactly 12 after the end of job 0
C14_Witness ==
    /\ Len(log) = 2
    /\ \E a \in EntriesOf(1), b \in EntriesOf(2) :
          /\ a.end = Makespan(log[1].best)
          /\ a.end > 1
          /\ b.start = a.end + 12

\* the resources used by the modes of the tasks of job j
UsedResources(j) ==
    UNION {Range(data.modes[g + 1].resources) : g \in {x \in AllModes : Owner(x) \in JobTasks(j)}}

\* C12: the subproblem of every job carries the whole resource list of the
\* instance in its order, every extracted mode has the resources and demands of
\* its original mode, and every stitched entry has the resources of the
\* solver's entry.
C12_ResourcesNotReindexed ==
    /\ \A j \in 0 .. (Len(data.jobs) - 1) :
          LET f == filter_problem_data_per_job(data, j) IN
          f.ok =>
            /\ f.new_data.resources = data.resources
            /\ \A m \in DOMAIN f.modes_translation :
                  /\ f.new_data.modes[m + 1].resources =
                        data.modes[f.modes_translation[m] + 1].resources
                  /\ f.new_data.modes[m + 1].demands =
                        data.modes[f.modes_translation[m] + 1].demands
    /\ \A i \in DOMAIN log : \A k \in DOMAIN log[i].best :
          scheduled_tasks[log[i].first + k].resources = log[i].best[k].resources

\* C12 witness: a stitched job whose modes use resource 0 only while its
\* subproblem holds both resources, and a later entry on resource 1
C12_Witness ==
    /\ Len(log) = 2
    /\ UsedResources(log[1].job) = {0}
    /\ Len(filter_problem_data_per_job(data, log[1].job).new_data.resources) = 2
    /\ \E b \in EntriesOf(2) : b.resources = << 1 >> /\ b.start >= 12

----------------------------------------------------------------------------
(* Further claims about filter_problem_data_per_job (SpecFilter) *)

\* C13: a returned subproblem is closed under its own indices: its job lists
\* exactly the tasks 0..n-1, every task has job 0, every mode names a task in
\* 0..n-1 and resources of the subproblem's resource list, every kept two-task
\* constraint names tasks in 0..n-1 and every kept mode dependency names modes in
\* 0..m-1.
C13_SubproblemValidity ==
    Extracted =>
        /\ Len(P_j.jobs[1].tasks) = Len(P_j.tasks)
        /\ Range(P_j.jobs[1].tasks) = LocalTasks
        /\ \A k \in DOMAIN P_j.tasks : P_j.tasks[k].job = 0
        /\ \A m \in LocalModes :
              /\ P_j.modes[m + 1].task \in LocalTasks
              /\ \A r \in Range(P_j.modes[m + 1].resources) :
                    r \in 0 .. (Len(P_j.resources) - 1)
        /\ \A i \in DOMAIN allowed_constraints :
              \A k \in DOMAIN P_j.constraints[allowed_constraints[i]] :
                  LET c == P_j.constraints[allowed_constraints[i]][k] IN
                  c.task1 \in LocalTasks /\ c.task2 \in LocalTasks
        /\ \A k \in DOMAIN P_j.constraints["mode_dependencies"] :
              LET c == P_j.constraints["mode_dependencies"][k] IN
              /\ c.mode1 \in LocalModes
              /\ \A x \in DOMAIN c.modes2 : c.modes2[x] \in LocalModes

\* C13 witness: a subproblem of two tasks that keeps a two-task constraint and a
\* mode dependency
C13_Witness ==
    /\ Extracted
    /\ Len(JT) = 2
    /\ \E i \in DOMAIN allowed_constraints : Len(P_j.constraints[allowed_constraints[i]]) = 1
    /\ Len(P_j.constraints["mode_dependencies"]) = 1

\* C15: a call of filter_problem_data_per_job, returning or raising, leaves the
\* jobs, tasks, modes, resources and constraints of the instance as they were,
\* so the outcome of extracting a job after any earlier extractions is the
\* outcome of extracting it from the instance as constructed.
C15_OriginalUnchanged ==
    /\ data = data0
    /\ filt.called => filt.out = filter_problem_data_per_job(data0, filt.job)

\* C15 witness: a second extraction, after another job's, that kept and
\* re-indexed a two-task constraint and a mode dependency of the instance
C15_Witness ==
    /\ Extracted
    /\ filt.earlier # {} /\ filt.job \notin filt.earlier
    /\ \E i \in DOMAIN allowed_constraints :
          LET cname == allowed_constraints[i] IN
          /\ Len(P_j.constraints[cname]) = 1
          /\ \E k \in DOMAIN data.constraints[cname] :
                /\ data.constraints[cname][k].task1 \in JobTasks(filt.job)
                /\ data.constraints[cname][k].task2 \in JobTasks(filt.job)
                /\ data.constraints[cname][k].task1 # P_j.constraints[cname][1].task1
    /\ Len(P_j.constraints["mode_dependencies"]) = 1
    /\ \E k \in DOMAIN data.constraints["mode_dependencies"] :
          data.constraints["mode_dependencies"][k].mode1
              # P_j.constraints["mode_dependencies"][1].mode1

----------------------------------------------------------------------------
(* Claim about benchmark_instance.main (SpecMain) *)

\* the status a failed run's row must carry
FailureStatus(cls) ==
    IF IsSubclass(cls, "TimeoutError") THEN "Time-Limit-Exception"
    ELSE IF IsSubclass(cls, "MemoryError") THEN "Memory-Exception"
    ELSE Repr(cls)

\* C16: however parse, warm start and solve end, no exception leaves main, a
\* run that has not returned can go on, and a run that is over has returned 0
\* with exactly one row in summary_list and in the written file; the row of a
\* failed run has objective, runtime, lower bound and gap unset, and its status
\* is "Time-Limit-Exception" for a TimeoutError and nothing else,
\* "Memory-Exception" for a MemoryError and nothing else, and the exception's
\* representation otherwise.
C16_RecordAndMoveOn ==
    /\ harness.pc # "propagated"
    /\ harness.pc # "done" => ENABLED NextMain
    /\ Len(harness.summary_list) <= 1
    /\ harness.pc = "done" =>
          /\ harness.returned = Val(0)
          /\ Len(harness.summary_list) = 1
          /\ harness.csv = harness.summary_list
          /\ harness.failure # NoExc =>
                LET row == harness.csv[1] IN
                /\ row.objective = None /\ row.runtime = None
                /\ row.lower_bound = None /\ row.gap = None
                /\ row.status = FailureStatus(harness.failure)
                /\ row.status = "Time-Limit-Exception"
                      <=> IsSubclass(harness.failure, "TimeoutError")
                /\ row.status = "Memory-Exception"
                      <=> IsSubclass(harness.failure, "MemoryError")

\* C16 witness: a run whose warm start ended in the assembly assertion and that
\* has returned
C16_Witness ==
    /\ harness.pc = "done"
    /\ pc = "raised" /\ exc = "AssertionError"
    /\ harness.failure = "AssertionError"

====
